---- MODULE Spec2Model ----
(***************************************************************************)
(* Lead synchronisation (syncLeadsFromSheets) and the dashboard's initial  *)
(* load (Dashboard.tsx, load) of the leads-management dashboard.           *)
(*                                                                         *)
(* Strings whose characters matter (phone numbers, the two fields of the   *)
(* natural key) are sequences of one-character strings, so that            *)
(* sanitising, slicing and template concatenation are computed as the      *)
(* code computes them.                                                     *)
(***************************************************************************)
EXTENDS Integers, Sequences, FiniteSets, TLC

\* ---------------------------------------------------------------- bounds
MaxFeed == 2        \* longest list the feed endpoint returns
MaxStore == 1       \* number of leads stored before the first sync

\* ------------------------------------------------------- program constants
NamespaceDigits == 10

\* The invocations of syncLeadsFromSheets: run 1 is the one the dashboard's
\* load() starts, run 2 the one of another session of the same account.
Runs == {1, 2}

Digits == {"0", "1", "2", "3", "4", "5", "6", "7", "8", "9"}

\* --------------------------------------------------------------- helpers
RECURSIVE SeqsUpTo(_, _)
SeqsUpTo(S, n) ==
  IF n = 0 THEN {<<>>}
  ELSE LET shorter == SeqsUpTo(S, n - 1)
       IN  shorter \cup {Append(s, x) : s \in shorter, x \in S}

Range(s) == {s[i] : i \in DOMAIN s}

\* String.prototype.replace(/[^\d]/g, '')
Sanitize(phone) == SelectSeq(phone, LAMBDA ch : ch \in Digits)

\* String.prototype.slice(-n)
SliceLast(s, n) ==
  IF Len(s) <= n THEN s ELSE SubSeq(s, Len(s) - n + 1, Len(s))

\* ------------------------------------------------------------ input data
NoUser == [present |-> FALSE, phoneNumber |-> <<>>]

\* auth.currentUser: absent, present without a phone number (null or ""),
\* present with an E.164 phone number (12 digits after the "+")
Users ==
  { NoUser,
    [present |-> TRUE, phoneNumber |-> <<>>],
    [present |-> TRUE,
     phoneNumber |-> <<"+", "9", "1", "9", "8", "7", "6", "5", "4", "3", "2", "1", "0">>] }

\* a lead object without an id property
NoId == <<>>

\* the id of the document stored under key k
DocKey(k) == <<"doc", k>>

\* The key Firestore assigns to the document that the i-th addDoc of run r
\* creates: unique, and unrelated to the order in which the creates land.
NewKey(r, i) == MaxStore + (r - 1) * MaxFeed + i

\* The keys of a collection in the order a query lists them.
RECURSIVE KeysInOrder(_)
KeysInOrder(keys) ==
  IF keys = {} THEN <<>>
  ELSE LET first == CHOOSE k \in keys : \A j \in keys : k <= j
       IN  <<first>> \o KeysInOrder(keys \ {first})

\* Lead-shaped records of the feed and of the store's documents.
Leads ==
  { [id |-> NoId, whatsapp_number_ |-> <<"1", "_", "2">>, created_time |-> <<"3">>,
     lead_status |-> "New Lead"],
    [id |-> NoId, whatsapp_number_ |-> <<"1", "_", "2">>, created_time |-> <<"3">>,
     lead_status |-> "Meeting Done"],
    [id |-> NoId, whatsapp_number_ |-> <<"1">>, created_time |-> <<"2", "_", "3">>,
     lead_status |-> "New Lead"],
    [id |-> NoId, whatsapp_number_ |-> <<"1">>, created_time |-> <<"3">>,
     lead_status |-> "New Lead"] }

Feeds == SeqsUpTo(Leads, MaxFeed)

\* Errors a rejected promise carries: what the load's catch looks at.
AuthError == [axios |-> FALSE, status |-> 0,
              message |-> "User not authenticated or phone number missing!!"]
FirebaseError == [axios |-> FALSE, status |-> 0, message |-> "firestore unavailable"]
AxiosErrors ==
  { [axios |-> TRUE, status |-> 500, message |-> "Request failed with status code 500"],
    [axios |-> TRUE, status |-> 404, message |-> "Request failed with status code 404"] }
NoError == [axios |-> FALSE, status |-> 0, message |-> ""]

\* ------------------------------------------------------------------ state
VARIABLES
  currentUser,   \* getAuth().currentUser
  sheet,         \* the rows of the external spreadsheet, as the feed lists them
  leadDocs,      \* the leads collection: document key |-> document data
  userDocs,      \* crm_users documents (namespace markers), by document key
  run,           \* the invocations of syncLeadsFromSheets
  loadPc,        \* position of the dashboard's load()
  leads,         \* Dashboard state: leads
  loading,       \* Dashboard state: loading
  error,         \* Dashboard state: error
  warning,       \* Dashboard state: warning
  caught,        \* the error load()'s catch received (NoError: none)
  kpis,          \* Dashboard state: kpis
  showPopup,     \* Dashboard state: showPopup (the import dialog is open)
  importError,   \* Dashboard state: importError
  fileValue,     \* the value of the import dialog's file input
  imp,           \* the invocation of handleCSVImport
  searchTerm,    \* LeadsTable state: searchTerm
  statusFilter,  \* LeadsTable state: statusFilter
  platformFilter, \* LeadsTable state: platformFilter
  currentPage,   \* LeadsTable state: currentPage
  isSidePanelOpen, \* LeadsTable state: isSidePanelOpen
  selectedLead,  \* LeadsTable state: selectedLead (<<>>: null, <<lead>>: a lead)
  followUpLeadId, \* LeadsTable state: followUpLeadId (Null: none)
  followUpDate,  \* LeadsTable state: followUpDate
  followUpTime,  \* LeadsTable state: followUpTime
  customerComment, \* LeadsTable state: customerComment
  isEditingCustomerComment, \* LeadsTable state: isEditingCustomerComment
  calls          \* handleSchedule and handleSaveCustomerComment calls awaiting the store

storeVars == <<leadDocs, userDocs>>
importVars == <<showPopup, importError, fileValue, imp>>
editVars == <<isSidePanelOpen, selectedLead, followUpLeadId, followUpDate, followUpTime,
              customerComment, isEditingCustomerComment, calls>>
tableVars == <<searchTerm, statusFilter, platformFilter, currentPage, editVars>>
loadVars == <<loadPc, loading, error, warning, caught>>
dashVars == <<loadPc, leads, loading, error, warning, caught, kpis, importVars, tableVars>>

vars == <<currentUser, sheet, storeVars, run, dashVars>>

Null == <<"null">>
\* new Date().toISOString() as evaluated in run r
Now(r) == <<"time of run", r>>
Never == <<>>

\* LeadsTable's state of the follow-up editor and the detail panel at mount
EditorsClosed ==
  /\ isSidePanelOpen = FALSE
  /\ selectedLead = <<>>
  /\ followUpLeadId = Null
  /\ followUpDate = <<>>
  /\ followUpTime = <<>>
  /\ customerComment = <<>>
  /\ isEditingCustomerComment = FALSE
  /\ calls = {}
NoDoc == [exists |-> FALSE, source |-> "", lastSyncedAt |-> Never]

\* every document key a marker can be written under
MarkerKeys ==
  UNION { {Sanitize(u.phoneNumber), SliceLast(Sanitize(u.phoneNumber), NamespaceDigits)} :
          u \in Users }

IdleRun ==
  [pc |-> "idle", err |-> NoError, sanitizedPhone |-> <<>>, sheetName |-> <<>>,
   syncedAt |-> Never, requested |-> Null, sheetsLeads |-> <<>>,
   filtered |-> FALSE, firestoreLeads |-> <<>>, newLeads |-> <<>>, pending |-> {}, created |-> {},
   after |-> {}]

\* ------------------------------------------------- syncLeadsFromSheets
generateLeadHash(lead) == lead.whatsapp_number_ \o <<"_">> \o lead.created_time

\* variant: the set of existing hashes is built from nothing
ExistingHashes_Empty(firestoreLeads) == {}

\* new Set(firestoreLeads.map(lead => generateLeadHash(lead)))
ExistingHashes(firestoreLeads) ==
  {generateLeadHash(firestoreLeads[k]) : k \in DOMAIN firestoreLeads}

\* variant: nothing is filtered out
NewLeads_NoFilter(sheetsLeads, firestoreLeads) == sheetsLeads

\* variant: the filter keeps the leads whose hash IS present
NewLeads_Inverted(sheetsLeads, firestoreLeads) ==
  SelectSeq(sheetsLeads,
            LAMBDA sheetLead :
              generateLeadHash(sheetLead) \in ExistingHashes(firestoreLeads))

\* sheetsLeads.filter(sheetLead => !existingHashes.has(generateLeadHash(sheetLead)))
NewLeads(sheetsLeads, firestoreLeads) ==
  SelectSeq(sheetsLeads,
            LAMBDA sheetLead :
              generateLeadHash(sheetLead) \notin ExistingHashes(firestoreLeads))

\* variant: only the user is checked, not the phone number
Authenticated_UserOnly(user) == user.present

\* if (!user || !user.phoneNumber)
Authenticated(user) == user.present /\ user.phoneNumber # <<>>

\* The synchronous prefix of a call: the auth check, the namespace
\* derivation and the issue of the marker write (its timestamp is taken now).
StartedRun(r) ==
  IF ~Authenticated(currentUser)
  THEN [run[r] EXCEPT !.pc = "failed", !.err = AuthError]
  ELSE [run[r] EXCEPT
          !.pc = "setDoc",
          !.sanitizedPhone = Sanitize(currentUser.phoneNumber),
          !.sheetName = SliceLast(Sanitize(currentUser.phoneNumber), NamespaceDigits),
          !.syncedAt = Now(r),
          !.after = {q \in Runs : run[q].pc = "done"}]

\* variant: the catch logs the error and does not rethrow it
Rethrown_Swallowed(r, e) == [run[r] EXCEPT !.pc = "done"]

\* catch (error) { console.error(...); throw error; }
Rethrown(r, e) == [run[r] EXCEPT !.pc = "failed", !.err = e]

\* A sync started by another session of the same account.
SyncStart(r) ==
  /\ r # 1
  /\ run[r].pc = "idle"
  /\ run' = [run EXCEPT ![r] = StartedRun(r)]
  /\ UNCHANGED <<currentUser, sheet, leadDocs, userDocs, dashVars>>

\* variant: the marker is written under the sheet name
SetDocOk_UnderSheetName(r) ==
  /\ run[r].pc = "setDoc"
  /\ userDocs' = [userDocs EXCEPT ![run[r].sheetName] =
                    [exists |-> TRUE, source |-> "sheet",
                     lastSyncedAt |-> run[r].syncedAt]]
  /\ run' = [run EXCEPT ![r].pc = "axiosGet", ![r].requested = run[r].sheetName]
  /\ UNCHANGED <<currentUser, sheet, leadDocs, dashVars>>

\* setDoc(userDocRef, {source, lastSyncedAt}, {merge: true}) completes; the
\* feed request is issued.
SetDocOk(r) ==
  /\ run[r].pc = "setDoc"
  /\ userDocs' = [userDocs EXCEPT ![run[r].sanitizedPhone] =
                    [exists |-> TRUE, source |-> "sheet",
                     lastSyncedAt |-> run[r].syncedAt]]
  /\ run' = [run EXCEPT ![r].pc = "axiosGet", ![r].requested = run[r].sheetName]
  /\ UNCHANGED <<currentUser, sheet, leadDocs, dashVars>>

SetDocFail(r) ==
  /\ run[r].pc = "setDoc"
  /\ run' = [run EXCEPT ![r] = Rethrown(r, FirebaseError)]
  /\ UNCHANGED <<currentUser, sheet, storeVars, dashVars>>

\* axios.get(API_URL) answers with response.data.leads = feed
AxiosOk(r) ==
  /\ run[r].pc = "axiosGet"
  /\ run' = [run EXCEPT ![r].pc = "getDocs", ![r].sheetsLeads = sheet]
  /\ UNCHANGED <<currentUser, sheet, storeVars, dashVars>>

AxiosFail(r) ==
  /\ run[r].pc = "axiosGet"
  /\ \E e \in AxiosErrors : run' = [run EXCEPT ![r] = Rethrown(r, e)]
  /\ UNCHANGED <<currentUser, sheet, storeVars, dashVars>>

\* variant: a stored lead whose hash the feed carries is overwritten with the
\* feed's record
GetDocsOk_Overwrite(r) ==
  /\ run[r].pc = "getDocs"
  /\ LET newLeads == NewLeads(run[r].sheetsLeads, leadDocs)
         fromFeed(k) ==
           {l \in Range(run[r].sheetsLeads) :
              generateLeadHash(l) = generateLeadHash(leadDocs[k])}
     IN  /\ run' = [run EXCEPT ![r].pc = "addDocs",
                               ![r].filtered = TRUE,
                               ![r].firestoreLeads = leadDocs,
                               ![r].newLeads = newLeads,
                               ![r].pending = DOMAIN newLeads]
         /\ leadDocs' = [k \in DOMAIN leadDocs |->
                          IF fromFeed(k) = {} THEN leadDocs[k]
                          ELSE CHOOSE l \in fromFeed(k) : TRUE]
  /\ UNCHANGED <<currentUser, sheet, userDocs, dashVars>>

\* getDocs(getLeadsCol()) answers; the new leads are filtered and one addDoc
\* per new lead is issued.
GetDocsOk(r) ==
  /\ run[r].pc = "getDocs"
  /\ LET newLeads == NewLeads(run[r].sheetsLeads, leadDocs)
     IN  run' = [run EXCEPT ![r].pc = "addDocs",
                            ![r].filtered = TRUE,
                            ![r].firestoreLeads = leadDocs,
                            ![r].newLeads = newLeads,
                            ![r].pending = DOMAIN newLeads]
  /\ UNCHANGED <<currentUser, sheet, storeVars, dashVars>>

GetDocsFail(r) ==
  /\ run[r].pc = "getDocs"
  /\ run' = [run EXCEPT ![r] = Rethrown(r, FirebaseError)]
  /\ UNCHANGED <<currentUser, sheet, storeVars, dashVars>>

\* one addDoc(getLeadsCol(), lead) of the Promise.all completes; it does so
\* also after another member has rejected the Promise.all
AddDocOk(r) ==
  /\ \E i \in run[r].pending :
       /\ leadDocs' = leadDocs @@ (NewKey(r, i) :> run[r].newLeads[i])
       /\ run' = [run EXCEPT ![r].pending = @ \ {i},
                             ![r].created = @ \cup {NewKey(r, i)}]
  /\ UNCHANGED <<currentUser, sheet, userDocs, dashVars>>

\* one addDoc rejects: Promise.all rejects on the first rejection (a later
\* rejection changes nothing: Promise.all is settled, the store is untouched)
AddDocFail(r) ==
  /\ run[r].pc = "addDocs"
  /\ \E i \in run[r].pending :
       run' = [run EXCEPT ![r] = [Rethrown(r, FirebaseError) EXCEPT !.pending = @ \ {i}]]
  /\ UNCHANGED <<currentUser, sheet, storeVars, dashVars>>

\* Promise.all resolves: every addDoc has completed
SyncDone(r) ==
  /\ run[r].pc = "addDocs"
  /\ run[r].pending = {}
  /\ run' = [run EXCEPT ![r].pc = "done"]
  /\ UNCHANGED <<currentUser, sheet, storeVars, dashVars>>

\* --------------------------------------------- fetchLeadsFromFirestore
\* snapshot.docs.map(doc => ({ id: doc.id, ...doc.data() }))
FetchedLeads(docs) ==
  LET keys == KeysInOrder(DOMAIN docs)
  IN  [n \in DOMAIN keys |->
         IF docs[keys[n]].id # NoId THEN docs[keys[n]]
         ELSE [docs[keys[n]] EXCEPT !.id = DocKey(keys[n])]]

\* ------------------------------------------------ Dashboard: KPIs
CountStatus_IgnoresCase(list, status) ==
  LET lower(str) == IF str \in {"Deal done", "Deal Done", "deal done"} THEN "deal done"
                    ELSE IF str \in {"Meeting Done", "meeting done"} THEN "meeting done"
                    ELSE str
  IN  Cardinality({n \in DOMAIN list : lower(list[n].lead_status) = lower(status)})

\* list.filter((l) => l.lead_status === status).length
CountStatus(list, status) ==
  Cardinality({n \in DOMAIN list : list[n].lead_status = status})

\* computeKPIs(list): the value handed to setKpis
computeKPIs(list) ==
  << [title |-> "Total Leads", value |-> Len(list), color |-> "blue"],
     [title |-> "Meeting Done", value |-> CountStatus(list, "Meeting Done"),
      color |-> "orange"],
     [title |-> "Deal Done", value |-> CountStatus(list, "Deal done"),
      color |-> "green"] >>

\* ------------------------------------------------ Dashboard: load()
NoLeadsWarning == <<"No leads available for your account">>

\* the catch and finally blocks of load()
LoadCaught(err) ==
  /\ caught' = err
  /\ IF err.axios /\ err.status = 500
     THEN warning' = NoLeadsWarning /\ error' = error
     ELSE error' = <<"Failed to load leads: ", err.message>> /\ warning' = warning
  /\ loading' = FALSE
  /\ loadPc' = "caught"

\* the effect runs after the first render: setLoading(true), first read issued
LoadBegin ==
  /\ loadPc = "mount"
  /\ loadPc' = "read1"
  /\ loading' = TRUE
  /\ kpis' = computeKPIs(leads)
  /\ UNCHANGED <<currentUser, sheet, storeVars, run, leads, error, warning, caught,
                 importVars, tableVars>>

\* the first read answers: setLeads(initial), then syncLeadsFromSheets() is
\* called and runs up to its first await
LoadRead1Ok ==
  /\ loadPc = "read1"
  /\ leads' = FetchedLeads(leadDocs)
  /\ run' = [run EXCEPT ![1] = StartedRun(1)]
  /\ kpis' = computeKPIs(leads')
  /\ loadPc' = "sync"
  /\ UNCHANGED <<currentUser, sheet, leadDocs, userDocs, loading, error, warning, caught,
                 importVars, tableVars>>

LoadRead1Fail ==
  /\ loadPc = "read1"
  /\ LoadCaught(FirebaseError)
  /\ UNCHANGED <<currentUser, sheet, storeVars, run, leads, kpis, importVars, tableVars>>

\* variant: the second read is issued without awaiting the sync
LoadSyncOk_NoAwait ==
  /\ loadPc = "sync"
  /\ loadPc' = "read2"
  /\ UNCHANGED <<currentUser, sheet, storeVars, run, leads, loading, error, warning, caught,
                 kpis, importVars, tableVars>>

\* await syncLeadsFromSheets() resumes: the second read is issued
LoadSyncOk ==
  /\ loadPc = "sync"
  /\ run[1].pc = "done"
  /\ loadPc' = "read2"
  /\ UNCHANGED <<currentUser, sheet, storeVars, run, leads, loading, error, warning, caught,
                 kpis, importVars, tableVars>>

LoadSyncFail ==
  /\ loadPc = "sync"
  /\ run[1].pc = "failed"
  /\ LoadCaught(run[1].err)
  /\ UNCHANGED <<currentUser, sheet, storeVars, run, leads, kpis, importVars, tableVars>>

\* the second read answers: setLeads(updated); finally setLoading(false)
LoadRead2Ok ==
  /\ loadPc = "read2"
  /\ leads' = FetchedLeads(leadDocs)
  /\ loading' = FALSE
  /\ kpis' = computeKPIs(leads')
  /\ loadPc' = "done"
  /\ UNCHANGED <<currentUser, sheet, storeVars, run, error, warning, caught,
                 importVars, tableVars>>

LoadRead2Fail ==
  /\ loadPc = "read2"
  /\ LoadCaught(FirebaseError)
  /\ UNCHANGED <<currentUser, sheet, storeVars, run, leads, kpis, importVars, tableVars>>

\* What Dashboard's render returns.
View ==
  IF loading THEN "spinner"
  ELSE IF error # <<>> THEN "warningPanel"
  ELSE "dashboard"

\* The warning text appears only in the panel returned under `if (error)`.
WarningShown == View = "warningPanel" /\ warning # Null

\* The lead list is handed to LeadsTable only in the last return.
LeadsShown == View = "dashboard"

\* The message the user reads: the panel returned under `if (error)` prints
\* {warning}; no other return prints error or warning.
ShownMessage == IF View = "warningPanel" THEN warning ELSE Null

\* ------------------------------------------- Dashboard: CSV import
\* the file input holds no file
NoFile == <<>>

\* handleCSVImport is not running
IdleImport ==
  [pc |-> "idle", text |-> <<>>, leads |-> <<>>, pending |-> {}, created |-> {},
   rejected |-> {}, failedAt |-> ""]

\* ------------------------------------------------------- specification
Init ==
  /\ currentUser \in Users
  /\ sheet \in Feeds
  /\ leadDocs \in SeqsUpTo(Leads, MaxStore)
  /\ userDocs = [k \in MarkerKeys |-> NoDoc]
  /\ run = [r \in Runs |-> IdleRun]
  /\ loadPc = "mount"
  /\ leads = <<>>
  /\ loading = TRUE
  /\ error = <<>>
  /\ warning = Null
  /\ caught = NoError
  /\ kpis = <<>>
  /\ showPopup = FALSE
  /\ importError = ""
  /\ fileValue = NoFile
  /\ imp = IdleImport
  /\ searchTerm = <<>>
  /\ statusFilter = "all"
  /\ platformFilter = "all"
  /\ currentPage = 1
  /\ EditorsClosed

Next ==
  \/ \E r \in Runs : SyncStart(r)
  \/ \E r \in Runs : SetDocOk(r)
  \/ \E r \in Runs : SetDocFail(r)
  \/ \E r \in Runs : AxiosOk(r)
  \/ \E r \in Runs : AxiosFail(r)
  \/ \E r \in Runs : GetDocsOk(r)
  \/ \E r \in Runs : GetDocsFail(r)
  \/ \E r \in Runs : AddDocOk(r)
  \/ \E r \in Runs : AddDocFail(r)
  \/ \E r \in Runs : SyncDone(r)
  \/ LoadBegin
  \/ LoadRead1Ok
  \/ LoadRead1Fail
  \/ LoadSyncOk
  \/ LoadSyncFail
  \/ LoadRead2Ok
  \/ LoadRead2Fail

Spec == Init /\ [][Next]_vars

\* One step of the sync run r.
SyncStep(r) ==
  \/ SyncStart(r) \/ LoadRead1Ok
  \/ SetDocOk(r) \/ SetDocFail(r)
  \/ AxiosOk(r) \/ AxiosFail(r)
  \/ GetDocsOk(r) \/ GetDocsFail(r)
  \/ AddDocOk(r) \/ AddDocFail(r)
  \/ SyncDone(r)

TypeOK ==
  /\ currentUser \in Users
  /\ loadPc \in {"mount", "read1", "sync", "read2", "done", "caught"}
  /\ loading \in BOOLEAN
  /\ \A r \in Runs :
       run[r].pc \in {"idle", "setDoc", "axiosGet", "getDocs", "addDocs", "done", "failed"}

\* ============================================================== claims

\* the natural key as step 6 of the sync algorithm writes it
naturalKey(lead) == generateLeadHash(lead)

\* the pair of fields the natural key is made of
KeyPair(lead) == <<lead.whatsapp_number_, lead.created_time>>

\* how many records with the data `lead` the run r has created
CreatedCount(r, lead) == Cardinality({k \in run[r].created : leadDocs[k] = lead})

\* how many members equal to `lead` the list I has whose natural key is not
\* the natural key of a lead of S
ExpectedCount(I, S, lead) ==
  Cardinality({i \in DOMAIN I :
                 /\ I[i] = lead
                 /\ \A k \in DOMAIN S : naturalKey(I[i]) # naturalKey(S[k])})

\* C1: a run that has read the stored set S and the feed list I creates only
\* members of I whose natural key is not the natural key of a lead of S, no
\* more of each than I lists, and when it completes it has created exactly
\* those members; every record of the store beyond the initial ones was
\* created by a run in this way.
C1_DedupCorrect ==
  /\ \A r \in Runs : \A lead \in Leads :
       LET expected == ExpectedCount(run[r].sheetsLeads, run[r].firestoreLeads, lead)
       IN  /\ ~run[r].filtered => CreatedCount(r, lead) = 0
           /\ run[r].filtered => CreatedCount(r, lead) <= expected
           /\ run[r].pc = "done" => CreatedCount(r, lead) = expected
  /\ \A k \in DOMAIN leadDocs :
       k > MaxStore => \E r \in Runs : k \in run[r].created

C1_Witness ==
  \E r \in Runs :
    /\ run[r].pc = "done"
    /\ run[r].created # {}
    /\ Cardinality(run[r].created) < Len(run[r].sheetsLeads)
    /\ run[r].firestoreLeads # <<>>

\* C2: a run that starts after another run has completed successfully, and
\* receives the same feed, creates no record, and at its end the store is
\* the one it read.
C2_Idempotent ==
  \A r \in Runs : \A q \in run[r].after :
    (run[r].filtered /\ run[q].sheetsLeads = run[r].sheetsLeads) =>
      /\ run[r].created = {}
      /\ run[r].pending = {}
      /\ run[r].pc = "done" => leadDocs = run[r].firestoreLeads

C2_Witness ==
  \E r \in Runs : \E q \in run[r].after :
    /\ run[r].pc = "done"
    /\ run[q].created # {}
    /\ run[q].sheetsLeads = run[r].sheetsLeads

\* C3: a run treats a feed lead as a duplicate (does not create it) if and
\* only if a stored lead has the same pair (whatsapp_number_, created_time).
C3_DuplicateIffSamePair ==
  \A r \in Runs :
    run[r].filtered =>
      \A lead \in Range(run[r].sheetsLeads) :
        (lead \notin Range(run[r].newLeads)) <=>
          (\E k \in DOMAIN run[r].firestoreLeads :
             KeyPair(run[r].firestoreLeads[k]) = KeyPair(lead))

\* C4: no step of a sync run removes or changes a stored lead.
C4_StoredLeadsUntouched ==
  [][(\E r \in Runs : SyncStep(r)) =>
       \A k \in DOMAIN leadDocs :
         k \in DOMAIN leadDocs' /\ leadDocs'[k] = leadDocs[k]]_vars

C4_Witness ==
  \E r \in Runs : \E k \in DOMAIN run[r].firestoreLeads :
    \E lead \in Range(run[r].sheetsLeads) :
      /\ run[r].pc = "done"
      /\ naturalKey(lead) = naturalKey(run[r].firestoreLeads[k])
      /\ lead.lead_status # run[r].firestoreLeads[k].lead_status
      /\ leadDocs[k] = run[r].firestoreLeads[k]

\* C5: without a user, or without a phone number, every started run has
\* failed with the authentication error, no marker is written, no feed
\* request is issued and no lead is created.
C5_AuthRequired ==
  ~(currentUser.present /\ currentUser.phoneNumber # <<>>) =>
    /\ \A r \in Runs :
         /\ run[r].pc \in {"idle", "failed"}
         /\ run[r].pc = "failed" => run[r].err = AuthError
         /\ run[r].requested = Null
         /\ run[r].created = {} /\ run[r].pending = {}
    /\ \A k \in MarkerKeys : userDocs[k] = NoDoc
    /\ DOMAIN leadDocs \subseteq 1..MaxStore

C5_Witness ==
  /\ currentUser.present
  /\ currentUser.phoneNumber = <<>>
  /\ \E r \in Runs : run[r].pc = "failed"

\* C6 (as claimed): the namespace made of the last 10 digits of the
\* sanitized phone number is the sheet name of the feed request and the key
\* under which the marker record is written.
C6_OneNamespace ==
  \A r \in Runs :
    run[r].requested # Null =>
      LET namespace == SliceLast(Sanitize(currentUser.phoneNumber), NamespaceDigits)
      IN  /\ run[r].requested = namespace
          /\ userDocs[namespace].exists

\* C6 (amended): the sheet name of the feed request is the last 10 digits of
\* the sanitized phone number; the marker record is written under the whole
\* sanitized phone number and under no other key.
C6_SheetNameAndMarkerKey ==
  \A r \in Runs :
    run[r].requested # Null =>
      /\ run[r].requested = SliceLast(Sanitize(currentUser.phoneNumber), NamespaceDigits)
      /\ \A k \in MarkerKeys :
           userDocs[k].exists <=> k = Sanitize(currentUser.phoneNumber)

C6_Witness ==
  \E r \in Runs :
    /\ run[r].requested # Null
    /\ Len(Sanitize(currentUser.phoneNumber)) > NamespaceDigits
    /\ run[r].requested # Sanitize(currentUser.phoneNumber)

\* a step of run r fails: the marker write, the feed request, the store read,
\* or the first create to fail
StepFails(r) ==
  \/ SetDocFail(r)
  \/ AxiosFail(r)
  \/ GetDocsFail(r)
  \/ AddDocFail(r)

\* C7: when a step of a run fails, the run fails to its caller with the
\* error and the failing step writes nothing; whatever a run wrote stays: its
\* created leads stay in the store as created, and the marker it wrote stays
\* stamped, also after the run has failed.
C7_FailsWithoutRollback ==
  /\ [](\A r \in Runs :
          /\ run[r].pc = "failed" => run[r].err # NoError
          /\ \A k \in run[r].created :
               k \in DOMAIN leadDocs /\ leadDocs[k] \in Range(run[r].newLeads)
          /\ run[r].requested # Null =>
               /\ userDocs[run[r].sanitizedPhone].exists
               /\ userDocs[run[r].sanitizedPhone].source = "sheet"
               /\ userDocs[run[r].sanitizedPhone].lastSyncedAt # Never)
  /\ [][\A r \in Runs :
          StepFails(r) =>
            /\ run'[r].pc = "failed"
            /\ run'[r].err # NoError
            /\ leadDocs' = leadDocs
            /\ userDocs' = userDocs]_vars

C7_Witness ==
  \E r \in Runs :
    /\ run[r].pc = "failed"
    /\ run[r].err = FirebaseError
    /\ run[r].created # {}
    /\ run[r].created \subseteq DOMAIN leadDocs
    /\ userDocs[run[r].sanitizedPhone].lastSyncedAt = Now(r)

\* C8: two records with the same natural key created by two different runs
\* exist only when the runs overlapped: each run read the store before the
\* other run's record was stored.
C8_DuplicatesOnlyByOverlap ==
  \A r1 \in Runs : \A r2 \in Runs \ {r1} :
    \A k1 \in run[r1].created : \A k2 \in run[r2].created :
      naturalKey(leadDocs[k1]) = naturalKey(leadDocs[k2]) =>
        /\ k1 \notin DOMAIN run[r2].firestoreLeads
        /\ k2 \notin DOMAIN run[r1].firestoreLeads

\* two completed runs have each created the same incoming lead, whose
\* natural key no record of the store had when they read it
C8_Witness ==
  \E r1 \in Runs : \E r2 \in Runs \ {r1} :
    \E k1 \in run[r1].created : \E k2 \in run[r2].created :
      /\ run[r1].pc = "done" /\ run[r2].pc = "done"
      /\ leadDocs[k1] = leadDocs[k2]
      /\ \A k \in DOMAIN run[r1].firestoreLeads :
           naturalKey(run[r1].firestoreLeads[k]) # naturalKey(leadDocs[k1])
      /\ \A k \in DOMAIN run[r2].firestoreLeads :
           naturalKey(run[r2].firestoreLeads[k]) # naturalKey(leadDocs[k1])

\* C9: after the first read has completed and while the sync has not, the
\* view shows the lead list (not the loading indicator).
C9_RenderedBeforeSyncCompletes ==
  loadPc = "sync" => (View = "dashboard" /\ LeadsShown)

\* C10: when the load has failed with an HTTP 500 response, the warning
\* "No leads available for your account" is shown to the user and no
\* load-error message is set.
C10_SoftWarningOn500 ==
  (loadPc = "caught" /\ caught.axios /\ caught.status = 500) =>
    /\ warning = NoLeadsWarning
    /\ WarningShown
    /\ error = <<>>

\* C11: when the load has failed with anything but an HTTP 500 response, the
\* user is shown "Failed to load leads: " followed by the error's message.
C11_GenericErrorShown ==
  (loadPc = "caught" /\ ~(caught.axios /\ caught.status = 500)) =>
    /\ error = <<"Failed to load leads: ", caught.message>>
    /\ ShownMessage = error

\* C20: load() issues the first read, then the sync, then the second read,
\* each only after the previous one completed successfully; after a failure
\* nothing more is issued; and when all three succeeded the lead list is the
\* post-sync content of the store: it holds every document the sync read or
\* created, and only documents of the store.
C20_LoadOrder ==
  /\ [](/\ loadPc \in {"mount", "read1"} => run[1].pc = "idle"
        /\ loadPc \in {"read2", "done"} => run[1].pc = "done"
        /\ loadPc = "done" =>
             /\ \A n \in DOMAIN leads : leads[n] \in Range(FetchedLeads(leadDocs))
             /\ \A k \in DOMAIN run[1].firestoreLeads \cup run[1].created :
                  \E n \in DOMAIN leads : leads[n].id = DocKey(k))
  /\ [][/\ loadPc' = "read2" => (loadPc = "read2" \/ (loadPc = "sync" /\ run[1].pc = "done"))
        /\ (run[1].pc = "idle" /\ run'[1].pc # "idle") =>
             (loadPc = "read1" /\ loadPc' = "sync")
        /\ loadPc = "caught" => loadPc' = "caught"]_vars

C20_Witness ==
  /\ loadPc = "done"
  /\ run[1].created # {}
  /\ run[1].firestoreLeads # <<>>
  /\ Len(leads) = Cardinality(DOMAIN leadDocs)

\* ================================================= LeadsTable and handlers
MaxTable == 2       \* number of leads in the store when the table is used

Undefined == <<"undefined">>

LowerOf(ch) == IF ch = "A" THEN "a" ELSE IF ch = "B" THEN "b" ELSE ch

\* String.prototype.toLowerCase
toLowerCase(str) == [i \in DOMAIN str |-> LowerOf(str[i])]

\* String.prototype.includes
includes(str, part) ==
  \E i \in 0..(Len(str) - Len(part)) : SubSeq(str, i + 1, i + Len(part)) = part

DigitChars == <<"0", "1", "2", "3", "4", "5", "6", "7", "8", "9">>

\* new Date(created_time).getTime(): a number, or NaN for an invalid date
NaN == -1
RECURSIVE getTime(_)
getTime(str) ==
  IF str = <<>> \/ \E i \in DOMAIN str : str[i] \notin Digits THEN NaN
  ELSE LET last == CHOOSE d \in DOMAIN DigitChars : DigitChars[d] = str[Len(str)]
           front == SubSeq(str, 1, Len(str) - 1)
       IN  IF front = <<>> THEN last - 1 ELSE 10 * getTime(front) + (last - 1)

\* a precedes b, or keeps its place before b, under the comparator
\* (a, b) => getTime(b) - getTime(a); a NaN result counts as 0
KeepsBefore(a, b) ==
  \/ getTime(a.created_time) = NaN
  \/ getTime(b.created_time) = NaN
  \/ getTime(b.created_time) - getTime(a.created_time) <= 0

\* Array.prototype.sort (stable) with that comparator
RECURSIVE SortedByTime(_)
SortedByTime(list) ==
  IF list = <<>> THEN <<>>
  ELSE LET front == SortedByTime(SubSeq(list, 1, Len(list) - 1))
           x == list[Len(list)]
           idx == Cardinality({i \in DOMAIN front : KeepsBefore(front[i], x)})
       IN  SubSeq(front, 1, idx) \o <<x>> \o SubSeq(front, idx + 1, Len(front))

\* lead.f?.toLowerCase().includes(searchTerm.toLowerCase())
IncludesLower(field, term) ==
  field # Undefined /\ includes(toLowerCase(field), toLowerCase(term))

matchesSearch(lead, term) ==
  \/ IncludesLower(lead.name, term)
  \/ (lead.whatsapp_number_ # Undefined /\ includes(lead.whatsapp_number_, term))
  \/ IncludesLower(lead.comments, term)

matchesStatus(lead, filter) == filter = "all" \/ lead.lead_status = filter

matchesPlatform(lead, filter) == filter = "all" \/ lead.platform = filter

\* leads.filter(...) followed by filteredLeads.sort(...)
filteredLeads ==
  SortedByTime(
    SelectSeq(leads,
              LAMBDA lead : /\ matchesSearch(lead, searchTerm)
                            /\ matchesStatus(lead, statusFilter)
                            /\ matchesPlatform(lead, platformFilter)))

\* the options of the two filter selects
statuses == {leads[n].lead_status : n \in DOMAIN leads} \ {""}
platforms == {leads[n].platform : n \in DOMAIN leads} \ {""}

itemsPerPage == 20

\* Array.prototype.slice(start, end) for 0 <= start <= end
slice(list, start, end) ==
  IF start >= Len(list) THEN <<>>
  ELSE SubSeq(list, start + 1, IF end < Len(list) THEN end ELSE Len(list))

\* Math.ceil(n / d) for n >= 0, d > 0
ceilDiv(n, d) == (n + d - 1) \div d

totalPages == ceilDiv(Len(filteredLeads), itemsPerPage)

paginatedLeadsAt_SkipsOne(page) ==
  slice(filteredLeads, (page - 1) * itemsPerPage + 1, page * itemsPerPage + 1)

\* the rows of the table when the current page is page
paginatedLeadsAt(page) ==
  slice(filteredLeads, (page - 1) * itemsPerPage, page * itemsPerPage)

paginatedLeads == paginatedLeadsAt(currentPage)

\* Lead documents with every field of the table.
TableLeads ==
  { [id |-> NoId, created_time |-> <<"3">>, platform |-> "fb",
     name |-> <<"A", "b">>, whatsapp_number_ |-> <<"9", "8">>,
     lead_status |-> "Meeting Done", comments |-> <<>>,
     customerComment |-> Undefined, followUpDate |-> Undefined,
     followUpTime |-> Undefined],
    [id |-> NoId, created_time |-> <<"1">>, platform |-> "ig",
     name |-> <<"b">>, whatsapp_number_ |-> <<"9", "a">>,
     lead_status |-> "Deal done", comments |-> Undefined,
     customerComment |-> Undefined, followUpDate |-> Undefined,
     followUpTime |-> Undefined],
    [id |-> NoId, created_time |-> <<"2">>, platform |-> "fb",
     name |-> <<>>, whatsapp_number_ |-> <<"8">>,
     lead_status |-> "deal done", comments |-> <<"A">>,
     customerComment |-> Undefined, followUpDate |-> Undefined,
     followUpTime |-> Undefined] }

SearchTerms == { <<>>, <<"a">>, <<"A">>, <<"9">> }

\* the values of the status select of a row
StatusOptions == {"", "Meeting Done", "Deal done"}

\* The state after load() has completed for the signed-in user with an empty
\* feed and the documents docs in the store.
Loaded(docs) ==
  LET user == CHOOSE u \in Users : Authenticated(u)
      phone == Sanitize(user.phoneNumber)
  IN  /\ currentUser = user
      /\ sheet = <<>>
      /\ leadDocs = docs
      /\ userDocs = [k \in MarkerKeys |->
                       IF k = phone
                       THEN [exists |-> TRUE, source |-> "sheet", lastSyncedAt |-> Now(1)]
                       ELSE NoDoc]
      /\ run = [r \in Runs |->
                  IF r = 1
                  THEN [IdleRun EXCEPT !.pc = "done", !.sanitizedPhone = phone,
                          !.sheetName = SliceLast(phone, NamespaceDigits),
                          !.syncedAt = Now(1),
                          !.requested = SliceLast(phone, NamespaceDigits),
                          !.filtered = TRUE, !.firestoreLeads = docs]
                  ELSE IdleRun]
      /\ loadPc = "done"
      /\ leads = FetchedLeads(docs)
      /\ loading = FALSE
      /\ error = <<>>
      /\ warning = Null
      /\ caught = NoError
      /\ kpis = computeKPIs(FetchedLeads(docs))
      /\ showPopup = FALSE
      /\ importError = ""
      /\ fileValue = NoFile
      /\ imp = IdleImport
      /\ searchTerm = <<>>
      /\ statusFilter = "all"
      /\ platformFilter = "all"
      /\ currentPage = 1
      /\ EditorsClosed

nonTableVars == <<currentUser, sheet, storeVars, run, loadVars, importVars>>

\* onChange of the search input
SetSearchTerm ==
  /\ \E term \in SearchTerms : searchTerm' = term
  /\ UNCHANGED <<nonTableVars, leads, kpis, statusFilter, platformFilter, currentPage, editVars>>

\* onChange of the status filter select
SetStatusFilter ==
  /\ \E filter \in {"all"} \cup statuses : statusFilter' = filter
  /\ UNCHANGED <<nonTableVars, leads, kpis, searchTerm, platformFilter, currentPage, editVars>>

\* onChange of the platform filter select
SetPlatformFilter ==
  /\ \E filter \in {"all"} \cup platforms : platformFilter' = filter
  /\ UNCHANGED <<nonTableVars, leads, kpis, searchTerm, statusFilter, currentPage, editVars>>

\* onChange of a row's status select: onStatusUpdate(lead.id, value), which is
\* handleStatusUpdate; the effect on [leads] then recomputes the KPIs
StatusUpdate ==
  /\ ~isSidePanelOpen
  /\ \E n \in DOMAIN paginatedLeads : \E newStatus \in StatusOptions :
       LET leadId == paginatedLeads[n].id
       IN  leads' = [m \in DOMAIN leads |->
                       IF leads[m].id = leadId
                       THEN [leads[m] EXCEPT !.lead_status = newStatus]
                       ELSE leads[m]]
  /\ kpis' = computeKPIs(leads')
  /\ UNCHANGED <<nonTableVars, tableVars>>

InitTable == \E docs \in SeqsUpTo(TableLeads, MaxTable) : Loaded(docs)

NextTable ==
  \/ SetSearchTerm
  \/ SetStatusFilter
  \/ SetPlatformFilter
  \/ StatusUpdate

SpecTable == InitTable /\ [][NextTable]_vars

\* ------------------------------------------------ LeadsTable: pages
MaxPageLeads == 41  \* number of leads in the store when pages are turned

PageTimes == << <<"2">>, <<"3">>, <<"1">> >>

\* the n-th of the stored documents of a long list
PageLead(n) ==
  [id |-> NoId, created_time |-> PageTimes[(n % 3) + 1],
   platform |-> IF n % 2 = 0 THEN "fb" ELSE "ig",
   name |-> <<"b">>, whatsapp_number_ |-> <<"9">>,
   lead_status |-> IF n % 3 = 0 THEN "Meeting Done" ELSE "New Lead",
   comments |-> Undefined]

\* onClick of Previous, rendered when there is more than one page
PrevPage ==
  /\ totalPages > 1
  /\ currentPage # 1
  /\ currentPage' = IF currentPage - 1 > 1 THEN currentPage - 1 ELSE 1
  /\ UNCHANGED <<nonTableVars, leads, kpis, searchTerm, statusFilter, platformFilter, editVars>>

\* onClick of Next, rendered when there is more than one page
NextPage ==
  /\ totalPages > 1
  /\ currentPage # totalPages
  /\ currentPage' = IF currentPage + 1 < totalPages THEN currentPage + 1 ELSE totalPages
  /\ UNCHANGED <<nonTableVars, leads, kpis, searchTerm, statusFilter, platformFilter, editVars>>

InitPage == \E L \in 0..MaxPageLeads : Loaded([n \in 1..L |-> PageLead(n)])

NextPageStep ==
  \/ SetSearchTerm
  \/ SetStatusFilter
  \/ SetPlatformFilter
  \/ PrevPage
  \/ NextPage

SpecPage == InitPage /\ [][NextPageStep]_vars

\* ------------------------------- LeadsTable: follow-up and customer comment
MaxCalls == 1       \* number of store writes awaited at a time

FollowUpDates == { <<"2025-01-01">> }
FollowUpTimes == { <<"10:00">> }
CommentInputs == { <<"c">> }

\* new Date(`${date}T${time}:00`).toISOString(), in a UTC time zone
toISOString(date, time) == date \o <<"T">> \o time \o <<":00.000Z">>

\* v ? String(v) : "", and String(v || "")
StringOrEmpty(v) == IF v # Undefined /\ v # <<>> THEN v ELSE <<>>

\* updateLead(leadId, fields): the fields are merged into the record
updateLead(docs, leadId, fields) ==
  [k \in DOMAIN docs |-> IF DocKey(k) = leadId THEN fields @@ docs[k] ELSE docs[k]]

\* the record updateLead is to update exists
LeadExists(docs, leadId) == \E k \in DOMAIN docs : DocKey(k) = leadId

\* the follow-up editor of a row is rendered
FollowUpEditorShown ==
  /\ ~isSidePanelOpen
  /\ \E n \in DOMAIN paginatedLeads : paginatedLeads[n].id = followUpLeadId

\* the detail panel is rendered
PanelShown == isSidePanelOpen /\ selectedLead # <<>>

\* a call that awaits the store, with the lead list of the render it was
\* made in (the list the Dashboard handler it will call has closed over)
Call(kind, leadId, date, time, comment) ==
  [kind |-> kind, leadId |-> leadId, date |-> date, time |-> time,
   comment |-> comment, leads |-> leads]

editFixed == <<currentUser, sheet, userDocs, run, loadVars, importVars,
               searchTerm, statusFilter, platformFilter, currentPage>>

\* onClick of a row's bell: handleFollowUpClick(lead.id)
FollowUpClick ==
  /\ ~isSidePanelOpen
  /\ \E n \in DOMAIN paginatedLeads :
       LET leadId == paginatedLeads[n].id
           lead == leads[CHOOSE m \in DOMAIN leads :
                           /\ leads[m].id = leadId
                           /\ \A j \in 1..(m - 1) : leads[j].id # leadId]
       IN  IF followUpLeadId = leadId
           THEN /\ followUpLeadId' = Null
                /\ UNCHANGED <<followUpDate, followUpTime>>
           ELSE /\ followUpLeadId' = leadId
                /\ followUpDate' = StringOrEmpty(lead.followUpDate)
                /\ followUpTime' = StringOrEmpty(lead.followUpTime)
  /\ UNCHANGED <<editFixed, leadDocs, leads, kpis, isSidePanelOpen, selectedLead,
                 customerComment, isEditingCustomerComment, calls>>

\* onClick of the editor's backdrop or close button
FollowUpClose ==
  /\ FollowUpEditorShown
  /\ followUpLeadId' = Null
  /\ UNCHANGED <<editFixed, leadDocs, leads, kpis, isSidePanelOpen, selectedLead,
                 followUpDate, followUpTime, customerComment,
                 isEditingCustomerComment, calls>>

\* onChange of the editor's date input
SetFollowUpDate ==
  /\ FollowUpEditorShown
  /\ \E date \in FollowUpDates : date # followUpDate /\ followUpDate' = date
  /\ UNCHANGED <<editFixed, leadDocs, leads, kpis, isSidePanelOpen, selectedLead,
                 followUpLeadId, followUpTime, customerComment,
                 isEditingCustomerComment, calls>>

\* onChange of the editor's time input
SetFollowUpTime ==
  /\ FollowUpEditorShown
  /\ \E time \in FollowUpTimes : time # followUpTime /\ followUpTime' = time
  /\ UNCHANGED <<editFixed, leadDocs, leads, kpis, isSidePanelOpen, selectedLead,
                 followUpLeadId, followUpDate, customerComment,
                 isEditingCustomerComment, calls>>

\* onClick of Schedule: handleSchedule(lead.id) up to its await
ScheduleBegin ==
  /\ FollowUpEditorShown
  /\ followUpDate # <<>> /\ followUpTime # <<>>
  /\ Cardinality(calls) < MaxCalls
  /\ calls' = calls \cup {Call("schedule", followUpLeadId, followUpDate, followUpTime, <<>>)}
  /\ calls' # calls
  /\ UNCHANGED <<editFixed, leadDocs, leads, kpis, isSidePanelOpen, selectedLead,
                 followUpLeadId, followUpDate, followUpTime, customerComment,
                 isEditingCustomerComment>>

\* scheduleFollowUp resolves: onFollowUpScheduled, which is
\* handleFollowUpScheduled, then setFollowUpLeadId(null)
ScheduleOk ==
  /\ \E c \in calls :
       /\ c.kind = "schedule"
       /\ LeadExists(leadDocs, c.leadId)
       /\ leadDocs' = updateLead(leadDocs, c.leadId,
                                 [followUpDate |-> toISOString(c.date, c.time),
                                  followUpTime |-> c.time])
       /\ leads' = [m \in DOMAIN c.leads |->
                      IF c.leads[m].id = c.leadId
                      THEN [c.leads[m] EXCEPT !.followUpDate = c.date,
                                              !.followUpTime = c.time]
                      ELSE c.leads[m]]
       /\ calls' = calls \ {c}
  /\ kpis' = computeKPIs(leads')
  /\ followUpLeadId' = Null
  /\ UNCHANGED <<editFixed, isSidePanelOpen, selectedLead, followUpDate, followUpTime,
                 customerComment, isEditingCustomerComment>>

\* scheduleFollowUp rejects: the catch of handleSchedule alerts
ScheduleFail ==
  /\ \E c \in calls : c.kind = "schedule" /\ calls' = calls \ {c}
  /\ UNCHANGED <<editFixed, leadDocs, leads, kpis, isSidePanelOpen, selectedLead,
                 followUpLeadId, followUpDate, followUpTime, customerComment,
                 isEditingCustomerComment>>

\* onClick of a row's name: openSidePanel(lead)
OpenSidePanel ==
  /\ \E n \in DOMAIN paginatedLeads :
       /\ selectedLead' = <<paginatedLeads[n]>>
       /\ customerComment' = StringOrEmpty(paginatedLeads[n].customerComment)
  /\ isEditingCustomerComment' = FALSE
  /\ isSidePanelOpen' = TRUE
  /\ UNCHANGED <<editFixed, leadDocs, leads, kpis, followUpLeadId, followUpDate,
                 followUpTime, calls>>

\* onClick of the panel's close button: closeSidePanel
CloseSidePanel ==
  /\ PanelShown
  /\ isSidePanelOpen' = FALSE
  /\ selectedLead' = <<>>
  /\ UNCHANGED <<editFixed, leadDocs, leads, kpis, followUpLeadId, followUpDate,
                 followUpTime, customerComment, isEditingCustomerComment, calls>>

\* onClick of the pencil
EditCustomerComment ==
  /\ PanelShown
  /\ ~isEditingCustomerComment
  /\ isEditingCustomerComment' = TRUE
  /\ UNCHANGED <<editFixed, leadDocs, leads, kpis, isSidePanelOpen, selectedLead,
                 followUpLeadId, followUpDate, followUpTime, customerComment, calls>>

\* onChange of the textarea
TypeCustomerComment ==
  /\ PanelShown
  /\ isEditingCustomerComment
  /\ \E comment \in CommentInputs :
       comment # customerComment /\ customerComment' = comment
  /\ UNCHANGED <<editFixed, leadDocs, leads, kpis, isSidePanelOpen, selectedLead,
                 followUpLeadId, followUpDate, followUpTime,
                 isEditingCustomerComment, calls>>

\* onClick of Cancel
CancelCustomerComment ==
  /\ PanelShown
  /\ isEditingCustomerComment
  /\ isEditingCustomerComment' = FALSE
  /\ customerComment' = StringOrEmpty(selectedLead[1].customerComment)
  /\ UNCHANGED <<editFixed, leadDocs, leads, kpis, isSidePanelOpen, selectedLead,
                 followUpLeadId, followUpDate, followUpTime, calls>>

\* onClick of Save: handleSaveCustomerComment up to its await
SaveCommentBegin ==
  /\ PanelShown
  /\ isEditingCustomerComment
  /\ Cardinality(calls) < MaxCalls
  /\ calls' = calls \cup {Call("comment", selectedLead[1].id, <<>>, <<>>, customerComment)}
  /\ calls' # calls
  /\ UNCHANGED <<editFixed, leadDocs, leads, kpis, isSidePanelOpen, selectedLead,
                 followUpLeadId, followUpDate, followUpTime, customerComment,
                 isEditingCustomerComment>>

\* updateCustomerComment resolves: onUpdateCustomerComment, which is
\* handleUpdateCustomerComment, then setIsEditingCustomerComment(false)
SaveCommentOk ==
  /\ \E c \in calls :
       /\ c.kind = "comment"
       /\ LeadExists(leadDocs, c.leadId)
       /\ leadDocs' = updateLead(leadDocs, c.leadId, [customerComment |-> c.comment])
       /\ leads' = [m \in DOMAIN c.leads |->
                      IF c.leads[m].id = c.leadId
                      THEN [c.leads[m] EXCEPT !.customerComment = c.comment]
                      ELSE c.leads[m]]
       /\ calls' = calls \ {c}
  /\ kpis' = computeKPIs(leads')
  /\ isEditingCustomerComment' = FALSE
  /\ UNCHANGED <<editFixed, isSidePanelOpen, selectedLead, followUpLeadId,
                 followUpDate, followUpTime, customerComment>>

\* updateCustomerComment rejects: the catch alerts
SaveCommentFail ==
  /\ \E c \in calls : c.kind = "comment" /\ calls' = calls \ {c}
  /\ UNCHANGED <<editFixed, leadDocs, leads, kpis, isSidePanelOpen, selectedLead,
                 followUpLeadId, followUpDate, followUpTime, customerComment,
                 isEditingCustomerComment>>

\* the dashboard loaded with one lead in the store
InitEdit == \E lead \in TableLeads : Loaded(<<lead>>)

NextFollowUp ==
  \/ StatusUpdate
  \/ FollowUpClick
  \/ FollowUpClose
  \/ SetFollowUpDate
  \/ SetFollowUpTime
  \/ ScheduleBegin
  \/ ScheduleOk
  \/ ScheduleFail

SpecFollowUp == InitEdit /\ [][NextFollowUp]_vars

NextComment ==
  \/ StatusUpdate
  \/ OpenSidePanel
  \/ CloseSidePanel
  \/ EditCustomerComment
  \/ TypeCustomerComment
  \/ CancelCustomerComment
  \/ SaveCommentBegin
  \/ SaveCommentOk
  \/ SaveCommentFail

SpecComment == InitEdit /\ [][NextComment]_vars

\* ------------------------------------------------ Dashboard: CSV import
MaxLines == 3       \* number of lines of the selected CSV file

\* The lines a CSV file is made of, as the words between which the parser
\* looks for separators; "," separates fields, "\n" separates lines.
CsvLines ==
  { <<"created_time", ",", "platform", ",", "name", ",", "whatsapp_number_", ",",
      "lead_status", ",", "comments">>,
    <<"2024-01-01T00:00:00Z", ",", "fb", ",", "Jane", ",", "919876543210", ",",
      ",", "Interested">>,
    <<"name", ",", " ", "lead_status", " ">>,
    <<"J", ",", "Deal done">>,
    <<"J", ",">>,
    <<"name">>,
    <<"J">>,
    <<>> }

RECURSIVE JoinLines(_)
JoinLines(lines) ==
  IF lines = <<>> THEN <<>>
  ELSE IF Len(lines) = 1 THEN lines[1]
  ELSE lines[1] \o <<"\n">> \o JoinLines(Tail(lines))

CsvTexts == {JoinLines(lines) : lines \in SeqsUpTo(CsvLines, MaxLines)}

\* str.split(sep) on a text given as its words
RECURSIVE SplitBy(_, _)
SplitBy(text, sep) ==
  IF \A i \in DOMAIN text : text[i] # sep THEN <<text>>
  ELSE LET at == CHOOSE i \in DOMAIN text :
                   text[i] = sep /\ \A j \in 1..(i - 1) : text[j] # sep
       IN  <<SubSeq(text, 1, at - 1)>> \o SplitBy(SubSeq(text, at + 1, Len(text)), sep)

\* the string the words of a field make up
RECURSIVE StringOf(_)
StringOf(words) == IF words = <<>> THEN "" ELSE words[1] \o StringOf(Tail(words))

\* String.prototype.trim, on the words of a field
RECURSIVE trim(_)
trim(words) ==
  IF words = <<>> THEN <<>>
  ELSE IF words[1] = " " THEN trim(Tail(words))
  ELSE IF words[Len(words)] = " " THEN trim(SubSeq(words, 1, Len(words) - 1))
  ELSE words

\* Papa's testEmptyLine under skipEmptyLines: true
testEmptyLine(row) == Len(row) = 1 /\ row[1] = <<>>

\* the rows of a text, each line split at the delimiter, empty lines skipped
RowsOf(text) ==
  LET lines == SplitBy(text, "\n")
  IN  SelectSeq([n \in DOMAIN lines |-> SplitBy(lines[n], ",")],
                LAMBDA row : ~testEmptyLine(row))

RECURSIVE SumLen(_)
SumLen(rows) == IF rows = <<>> THEN 0 ELSE Len(rows[1]) + SumLen(Tail(rows))

\* Papa's guessDelimiter: a delimiter is accepted when the lines that are not
\* empty hold more than 1.99 fields on average; only "," occurs in the texts
guessDelimiter(text) ==
  LET rows == RowsOf(text)
  IN  rows # <<>> /\ 100 * SumLen(rows) > 199 * Len(rows)

\* Papa.parse(csvText, {header: true, skipEmptyLines: true, transformHeader:
\* trim}): data, the rows after the header as objects keyed by the header's
\* fields; errors, the number of errors reported: one for every row whose
\* number of fields is not the header's, one for an undetectable delimiter
PapaParse(text) ==
  LET rows == RowsOf(text)
      fields == IF rows = <<>> THEN <<>>
                ELSE [c \in DOMAIN rows[1] |-> StringOf(trim(rows[1][c]))]
      body == IF rows = <<>> THEN <<>> ELSE Tail(rows)
      mismatch == {n \in DOMAIN body : Len(body[n]) # Len(fields)}
  IN  [data |-> [n \in DOMAIN body |->
                   [f \in {fields[c] : c \in DOMAIN fields \cap DOMAIN body[n]} |->
                      StringOf(body[n][CHOOSE c \in DOMAIN fields \cap DOMAIN body[n] :
                                         fields[c] = f])]],
       errors |-> Cardinality(mismatch) + (IF guessDelimiter(text) THEN 0 ELSE 1)]

\* Date.now() and new Date().toISOString() at the time of the import
DateNow == "1700000000000"
NowISOString == "2023-11-14T22:13:20.000Z"

\* row.f || def
OrDefault(row, f, def) == IF f \in DOMAIN row /\ row[f] # "" THEN row[f] ELSE def

\* the Lead parseCSV makes of a row
LeadOfRow(row, index) ==
  [id |-> <<"imported", DateNow, index>>,
   created_time |-> OrDefault(row, "created_time", NowISOString),
   platform |-> OrDefault(row, "platform", ""),
   name |-> OrDefault(row, "name", ""),
   whatsapp_number_ |-> OrDefault(row, "whatsapp_number_", ""),
   lead_status |-> OrDefault(row, "lead_status", "New Lead"),
   comments |-> OrDefault(row, "comments", "")]

InvalidCSV == "Invalid CSV format"

parseCSV_IgnoresErrors(text) ==
  LET results == PapaParse(text)
  IN  [threw |-> FALSE,
       leads |-> [n \in DOMAIN results.data |-> LeadOfRow(results.data[n], n - 1)]]

\* parseCSV(csvText): the leads returned, or threw with "Invalid CSV format"
parseCSV(text) ==
  LET results == PapaParse(text)
  IN  IF results.errors > 0 THEN [threw |-> TRUE, leads |-> <<>>]
      ELSE [threw |-> FALSE,
            leads |-> [n \in DOMAIN results.data |-> LeadOfRow(results.data[n], n - 1)]]

\* the file input holds the selected file
SomeFile == <<"leads.csv">>

\* Documents of the store before an import: one written from a feed lead
\* that carries an id field of its own, one without such a field.
ImportDocs ==
  { [id |-> <<"feed", "7">>, created_time |-> "2024-01-01T00:00:00Z",
     platform |-> "fb", name |-> "Jane", whatsapp_number_ |-> "919876543210",
     lead_status |-> "Meeting Done", comments |-> ""],
    [id |-> NoId, created_time |-> "2024-01-02T00:00:00Z",
     platform |-> "ig", name |-> "J", whatsapp_number_ |-> "",
     lead_status |-> "Deal done", comments |-> ""] }

\* the key the store assigns to the document of the i-th lead of the batch
ImportKey(i) == MaxStore + Cardinality(Runs) * MaxFeed + i

\* what a rejected createLead is rejected with
CreateErrors == {FirebaseError.message, "permission-denied"}

SaveFailed == "Failed to save leads to database"

\* createLead(lead): the lead is persisted as a new record
createLead(docs, key, lead) == docs @@ (key :> lead)

nonImportVars == <<currentUser, sheet, userDocs, run, loadVars, tableVars>>

\* variant: the catch without the finally that resets the file input
ImportCaught_KeepsFile(message, at) ==
  /\ importError' = IF message = "" THEN "Failed to import CSV" ELSE message
  /\ fileValue' = fileValue
  /\ imp' = [imp EXCEPT !.pc = "failed", !.failedAt = at]

\* the catch and finally blocks of handleCSVImport
ImportCaught(message, at) ==
  /\ importError' = IF message = "" THEN "Failed to import CSV" ELSE message
  /\ fileValue' = NoFile
  /\ imp' = [imp EXCEPT !.pc = "failed", !.failedAt = at]

\* onClick of the Import CSV button
OpenPopup ==
  /\ ~showPopup
  /\ showPopup' = TRUE
  /\ UNCHANGED <<nonImportVars, leadDocs, leads, kpis, importError, fileValue, imp>>

\* onClick of the dialog's close button
ClosePopup ==
  /\ showPopup
  /\ showPopup' = FALSE
  /\ UNCHANGED <<nonImportVars, leadDocs, leads, kpis, importError, fileValue, imp>>

\* onChange of the file input with a file: handleCSVImport up to the await
\* of readFileAsText (without a file the handler returns at once)
ImportBegin ==
  /\ showPopup
  /\ imp.pc = "idle"
  /\ \E text \in CsvTexts : imp' = [imp EXCEPT !.pc = "reading", !.text = text]
  /\ importError' = ""
  /\ fileValue' = SomeFile
  /\ UNCHANGED <<nonImportVars, leadDocs, leads, kpis, showPopup>>

\* reader.onerror
ImportReadFail ==
  /\ imp.pc = "reading"
  /\ ImportCaught("File reading failed", "read")
  /\ UNCHANGED <<nonImportVars, leadDocs, leads, kpis, showPopup>>

\* reader.onload: parseCSV(text), then importLeadsFromCSV(leads) up to its
\* await: one createLead is issued for every lead
ImportReadOk ==
  /\ imp.pc = "reading"
  /\ LET parsed == parseCSV(imp.text)
     IN  IF parsed.threw
         THEN ImportCaught(InvalidCSV, "parse")
         ELSE /\ imp' = [imp EXCEPT !.pc = "creating", !.leads = parsed.leads,
                                    !.pending = DOMAIN parsed.leads]
              /\ UNCHANGED <<importError, fileValue>>
  /\ UNCHANGED <<nonImportVars, leadDocs, leads, kpis, showPopup>>

\* one createLead resolves
CreateOk ==
  /\ \E i \in imp.pending :
       /\ leadDocs' = createLead(leadDocs, ImportKey(i), imp.leads[i])
       /\ imp' = [imp EXCEPT !.pending = @ \ {i}, !.created = @ \cup {i}]
  /\ UNCHANGED <<nonImportVars, leads, kpis, showPopup, importError, fileValue>>

CreateFail_Rethrows ==
  \E i \in imp.pending : \E message \in CreateErrors :
    /\ IF imp.pc = "creating"
       THEN /\ importError' = message
            /\ fileValue' = NoFile
            /\ imp' = [imp EXCEPT !.pc = "failed", !.failedAt = "create",
                                  !.pending = @ \ {i}, !.rejected = @ \cup {i}]
       ELSE /\ imp' = [imp EXCEPT !.pending = @ \ {i}, !.rejected = @ \cup {i}]
            /\ UNCHANGED <<importError, fileValue>>
    /\ UNCHANGED <<nonImportVars, leadDocs, leads, kpis, showPopup>>

\* one createLead rejects: on the first rejection Promise.all rejects,
\* importLeadsFromCSV throws its own error and handleCSVImport catches it
CreateFail ==
  \E i \in imp.pending : \E message \in CreateErrors :
    /\ IF imp.pc = "creating"
       THEN /\ importError' = SaveFailed
            /\ fileValue' = NoFile
            /\ imp' = [imp EXCEPT !.pc = "failed", !.failedAt = "create",
                                  !.pending = @ \ {i}, !.rejected = @ \cup {i}]
       ELSE /\ imp' = [imp EXCEPT !.pending = @ \ {i}, !.rejected = @ \cup {i}]
            /\ UNCHANGED <<importError, fileValue>>
    /\ UNCHANGED <<nonImportVars, leadDocs, leads, kpis, showPopup>>

\* variant: the re-read is started without awaiting the creates
ImportAllCreated_NoAwait ==
  /\ imp.pc = "creating"
  /\ imp' = [imp EXCEPT !.pc = "fetching"]
  /\ UNCHANGED <<nonImportVars, leadDocs, leads, kpis, showPopup, importError, fileValue>>

\* Promise.all resolves: fetchLeadsFromFirestore is called
ImportAllCreated ==
  /\ imp.pc = "creating"
  /\ imp.pending = {}
  /\ imp' = [imp EXCEPT !.pc = "fetching"]
  /\ UNCHANGED <<nonImportVars, leadDocs, leads, kpis, showPopup, importError, fileValue>>

\* the re-read answers: setLeads, computeKPIs, setShowPopup(false), finally
ImportFetchOk ==
  /\ imp.pc = "fetching"
  /\ leads' = FetchedLeads(leadDocs)
  /\ kpis' = computeKPIs(leads')
  /\ showPopup' = FALSE
  /\ fileValue' = NoFile
  /\ imp' = [imp EXCEPT !.pc = "done"]
  /\ UNCHANGED <<nonImportVars, leadDocs, importError>>

\* the re-read rejects
ImportFetchFail ==
  /\ imp.pc = "fetching"
  /\ ImportCaught(FirebaseError.message, "fetch")
  /\ UNCHANGED <<nonImportVars, leadDocs, leads, kpis, showPopup>>

InitImport == \E docs \in SeqsUpTo(ImportDocs, MaxStore) : Loaded(docs)

NextImport ==
  \/ OpenPopup
  \/ ClosePopup
  \/ ImportBegin
  \/ ImportReadFail
  \/ ImportReadOk
  \/ CreateOk
  \/ CreateFail
  \/ ImportAllCreated
  \/ ImportFetchOk
  \/ ImportFetchFail

SpecImport == InitImport /\ [][NextImport]_vars

\* the stored document a lead of the list was read from
StoredOf(lead) == leadDocs[CHOOSE k \in DOMAIN leadDocs : DocKey(k) = lead.id]

\* C12: the status of every lead of the list is the status of its stored
\* record, so that a re-read of the store returns the status the user chose.
C12_StatusStored ==
  \A n \in DOMAIN leads :
    /\ \E k \in DOMAIN leadDocs : DocKey(k) = leads[n].id
    /\ StoredOf(leads[n]).lead_status = leads[n].lead_status

\* C17: once the effects have run, "Total Leads" is the length of the lead
\* list, "Meeting Done" the number of leads whose lead_status is exactly
\* "Meeting Done", "Deal Done" the number of those whose lead_status is
\* exactly "Deal done".
C17_KpisMatchLeads ==
  loadPc # "mount" =>
    /\ Len(kpis) = 3
    /\ kpis[1].title = "Total Leads" /\ kpis[1].value = Len(leads)
    /\ kpis[2].title = "Meeting Done"
    /\ kpis[2].value = Len(SelectSeq(leads, LAMBDA l : l.lead_status = "Meeting Done"))
    /\ kpis[3].title = "Deal Done"
    /\ kpis[3].value = Len(SelectSeq(leads, LAMBDA l : l.lead_status = "Deal done"))

C17_Witness ==
  /\ leads # FetchedLeads(leadDocs)
  /\ \E n \in DOMAIN leads : leads[n].lead_status = "deal done"
  /\ kpis[3].value = 0
  /\ kpis[2].value = 1
  /\ kpis[1].value = 2

\* C18: a lead is in the filtered view if and only if the status filter is
\* "all" or its status, the platform filter is "all" or its platform, and the
\* search text occurs, ignoring case, in its name, number or comments.
C18_FilterIff ==
  \A n \in DOMAIN leads :
    (\E m \in DOMAIN filteredLeads : filteredLeads[m] = leads[n]) <=>
      /\ statusFilter = "all" \/ statusFilter = leads[n].lead_status
      /\ platformFilter = "all" \/ platformFilter = leads[n].platform
      /\ \E field \in {leads[n].name, leads[n].whatsapp_number_, leads[n].comments} :
           /\ field # Undefined
           /\ \E i \in 0..(Len(field) - Len(searchTerm)) :
                \A j \in 1..Len(searchTerm) :
                  LowerOf(field[i + j]) = LowerOf(searchTerm[j])

\* the pages 1..n of the table, one after the other
RECURSIVE PagesUpTo(_)
PagesUpTo(n) == IF n = 0 THEN <<>> ELSE PagesUpTo(n - 1) \o paginatedLeadsAt(n)

\* C19: for the filtered and sorted list of length L there are ceil(L/20)
\* pages, every page before the last shows exactly 20 leads, the last shows
\* L - 20*(ceil(L/20) - 1), the pages in order make up the list, and the
\* rows shown are the page of the current page number.
C19_Pagination ==
  LET L == Len(filteredLeads)
      pages == CHOOSE n \in 0..L : 20 * n >= L /\ (n = 0 \/ 20 * (n - 1) < L)
  IN  /\ totalPages = pages
      /\ \A p \in 1..(pages - 1) : Len(paginatedLeadsAt(p)) = 20
      /\ pages > 0 => Len(paginatedLeadsAt(pages)) = L - 20 * (pages - 1)
      /\ PagesUpTo(pages) = filteredLeads
      /\ currentPage \in 1..pages =>
           /\ paginatedLeads = paginatedLeadsAt(currentPage)
           /\ \A n \in DOMAIN paginatedLeads :
                paginatedLeads[n] = filteredLeads[20 * (currentPage - 1) + n]

C19_Witness ==
  /\ Len(filteredLeads) = 41
  /\ currentPage = 3
  /\ Len(paginatedLeads) = 1

\* C13: the lead list the import re-read from the store holds one lead per
\* document, and the id of every lead is the key the store assigned to its
\* document, whatever the data of the document holds.
C13_IdIsDocumentKey ==
  imp.pc = "done" =>
    /\ Len(leads) = Cardinality(DOMAIN leadDocs)
    /\ \A n \in DOMAIN leads :
         leads[n].id = DocKey(KeysInOrder(DOMAIN leadDocs)[n])

\* the batch of an import in which a create has been issued
Issued == imp.pc \in {"creating", "fetching", "done"} \/ imp.failedAt = "create"

\* C14: importLeadsFromCSV issues one create per lead of the batch and goes
\* on only when all of them have resolved; once a create has failed the
\* import has failed with "Failed to save leads to database", whatever the
\* create was rejected with, and the records whose create succeeded are in
\* the store.
C14_CreateMany ==
  /\ Issued =>
       /\ imp.pending \cup imp.created \cup imp.rejected = DOMAIN imp.leads
       /\ imp.pending \cap imp.created = {}
       /\ imp.pending \cap imp.rejected = {}
       /\ imp.created \cap imp.rejected = {}
  /\ imp.pc \in {"fetching", "done"} => imp.created = DOMAIN imp.leads
  /\ imp.rejected # {} => imp.pc = "failed" /\ importError = SaveFailed
  /\ \A i \in imp.created :
       ImportKey(i) \in DOMAIN leadDocs /\ leadDocs[ImportKey(i)] = imp.leads[i]
  /\ Cardinality(DOMAIN leadDocs) =
       Len(run[1].firestoreLeads) + Cardinality(imp.created)

C14_Witness ==
  /\ imp.rejected # {}
  /\ imp.created # {}
  /\ imp.pending = {}
  /\ \E i \in imp.created : \E j \in imp.rejected : i > j

CanonicalFields ==
  {"created_time", "platform", "name", "whatsapp_number_", "lead_status", "comments"}

\* the header of a text: the fields of its first line that is not empty
HeaderOf(text) ==
  LET rows == RowsOf(text)
  IN  [c \in DOMAIN rows[1] |-> StringOf(trim(rows[1][c]))]

\* a header of canonical columns, each at most once, and data rows that
\* have one field for every column
WellFormedCsv(text) ==
  LET rows == RowsOf(text)
  IN  /\ rows # <<>>
      /\ \A c \in DOMAIN rows[1] : HeaderOf(text)[c] \in CanonicalFields
      /\ \A c, d \in DOMAIN rows[1] : HeaderOf(text)[c] = HeaderOf(text)[d] => c = d
      /\ \A n \in DOMAIN rows : Len(rows[n]) = Len(rows[1])

\* the value the n-th data row of a well-formed text gives for field f, or
\* def when the row gives none
ValueOrDefault(text, n, f, def) ==
  LET rows == RowsOf(text)
      cols == {c \in DOMAIN rows[1] : HeaderOf(text)[c] = f}
  IN  IF cols = {} THEN def
      ELSE LET value == StringOf(rows[n + 1][CHOOSE c \in cols : TRUE])
           IN  IF value = "" THEN def ELSE value

\* the parse of a selected file has been made
Parsed == imp.pc \notin {"idle", "reading"} /\ imp.failedAt # "read"

\* what C15 says of a parsed text with a valid header and well-formed rows
ParsedAsClaimed ==
  LET N == Len(RowsOf(imp.text)) - 1
  IN  /\ imp.failedAt # "parse"
      /\ Len(imp.leads) = N
      /\ \A n, m \in DOMAIN imp.leads : imp.leads[n].id = imp.leads[m].id => n = m
      /\ \A n \in DOMAIN imp.leads :
           /\ imp.leads[n].created_time =
                ValueOrDefault(imp.text, n, "created_time", NowISOString)
           /\ imp.leads[n].platform = ValueOrDefault(imp.text, n, "platform", "")
           /\ imp.leads[n].name = ValueOrDefault(imp.text, n, "name", "")
           /\ imp.leads[n].whatsapp_number_ =
                ValueOrDefault(imp.text, n, "whatsapp_number_", "")
           /\ imp.leads[n].lead_status =
                ValueOrDefault(imp.text, n, "lead_status", "New Lead")
           /\ imp.leads[n].comments = ValueOrDefault(imp.text, n, "comments", "")

\* C15: for a text with a valid header and N well-formed data rows parseCSV
\* returns N records in row order, with pairwise different temporary ids and
\* every canonical field the row's value, or its default when the value is
\* absent or empty.
C15_ParseWellFormed == (Parsed /\ WellFormedCsv(imp.text)) => ParsedAsClaimed

\* a data row whose number of fields is not the header's
RowLevelError(text) ==
  LET rows == RowsOf(text)
  IN  \E n \in DOMAIN rows : Len(rows[n]) # Len(rows[1])

\* C16: when a row of the text has a row-level error, parseCSV throws
\* "Invalid CSV format", returns no record, no create is issued and the
\* store is as it was before the import.
C16_RejectsWhole ==
  (Parsed /\ RowLevelError(imp.text)) =>
    /\ imp.pc = "failed" /\ imp.failedAt = "parse"
    /\ importError = InvalidCSV
    /\ imp.leads = <<>>
    /\ imp.pending = {} /\ imp.created = {} /\ imp.rejected = {}
    /\ leadDocs = run[1].firestoreLeads

C16_Witness ==
  /\ Parsed
  /\ RowLevelError(imp.text)
  /\ \E n \in DOMAIN RowsOf(imp.text) :
       n > 1 /\ Len(RowsOf(imp.text)[n]) = Len(RowsOf(imp.text)[1])
  /\ run[1].firestoreLeads # <<>>

\* C21: a successful CSV import parses the file text, then creates every
\* parsed lead, then re-reads the whole store, then replaces the rendered
\* list: the creates are issued only on the step that parsed the text, the
\* re-read starts only when every parsed lead has been created, the list is
\* replaced only on the step that ends the import, and on that step the
\* in-memory list becomes the result of the re-read and the dialog is closed.
C21_ImportOrder ==
  [][/\ (imp'.pc = "creating" /\ imp.pc # "creating") =>
          /\ imp.pc = "reading"
          /\ ~parseCSV(imp.text).threw
          /\ imp'.leads = parseCSV(imp.text).leads
          /\ imp'.pending = DOMAIN imp'.leads
          /\ imp.created = {}
     /\ (imp'.pc = "fetching" /\ imp.pc # "fetching") =>
          /\ imp.pc = "creating"
          /\ imp.created = DOMAIN imp.leads
          /\ \A i \in DOMAIN imp.leads : ImportKey(i) \in DOMAIN leadDocs
     /\ (imp'.pc = "done" /\ imp.pc # "done") =>
          /\ imp.pc = "fetching"
          /\ leadDocs' = leadDocs
          /\ leads' = FetchedLeads(leadDocs)
          /\ Len(leads') = Cardinality(DOMAIN leadDocs)
          /\ ~showPopup'
     /\ leads' # leads => (imp.pc = "fetching" /\ imp'.pc = "done")]_vars

\* an import of at least one lead has ended: every parsed lead is stored,
\* the list is the re-read store and the dialog is closed
C21_Witness ==
  /\ imp.pc = "done"
  /\ imp.created = DOMAIN imp.leads
  /\ imp.leads # <<>>
  /\ leads = FetchedLeads(leadDocs)
  /\ Len(leads) > Len(run[1].firestoreLeads)
  /\ ~showPopup

\* C22: the step on which an import fails (reading, parsing, a create or the
\* re-read) sets a non-empty error message for the dialog, leaves the dialog
\* as it is (open unless the user has closed it) and leaves the in-memory
\* lead list and the figures unchanged; and the step that ends an import
\* attempt, failed or successful, resets the file input to empty.
C22_ImportFailure ==
  [][/\ (imp'.pc = "failed" /\ imp.pc # "failed") =>
          /\ importError' # ""
          /\ showPopup' = showPopup
          /\ leads' = leads
          /\ kpis' = kpis
          /\ fileValue' = NoFile
     /\ (imp'.pc = "done" /\ imp.pc # "done") => fileValue' = NoFile
     /\ (imp.pc \in {"failed", "done"}) =>
          (fileValue' = fileValue /\ leads' = leads /\ importError' = importError)]_vars

\* an import has failed on a create after another create had landed: the
\* message is shown in the open dialog, the list is the one the load
\* fetched and the file input is empty
C22_Witness ==
  /\ imp.pc = "failed"
  /\ imp.failedAt = "create"
  /\ imp.created # {}
  /\ importError = SaveFailed
  /\ showPopup
  /\ leads = FetchedLeads(run[1].firestoreLeads)
  /\ leads # FetchedLeads(leadDocs)
  /\ fileValue = NoFile

\* the list `list` with the change of the call c applied to its lead
WithChangeOf(list, c) ==
  [m \in DOMAIN list |->
     IF list[m].id # c.leadId THEN list[m]
     ELSE IF c.kind = "schedule"
          THEN [list[m] EXCEPT !.followUpDate = c.date, !.followUpTime = c.time]
          ELSE [list[m] EXCEPT !.customerComment = c.comment]]

\* C23: no change of the in-memory list is lost while a store write is
\* awaited: the step that completes an awaited follow-up schedule or comment
\* save leaves the list as it is (the write failed) or applies the change of
\* that write to the list as it is then, so that the changes applied in the
\* meantime are still there.
C23_NoLostUpdate ==
  [][\A c \in calls \ calls' :
       leads' = leads \/ leads' = WithChangeOf(leads, c)]_vars

\* C24: the current page number is within 1..max(1, ceil(L/20)) for the
\* length L of the filtered list, and a filtered list that is not empty is
\* never rendered as an empty page.
C24_PageInRange ==
  /\ currentPage >= 1
  /\ currentPage <= (IF totalPages > 1 THEN totalPages ELSE 1)
  /\ filteredLeads # <<>> => paginatedLeads # <<>>

\* C25: in the detail panel, once a customer comment has been saved for the
\* selected lead (its stored record holds one) and no save is awaited, the
\* step that leaves the editing mode by Cancel displays the saved comment.
C25_CancelShowsSaved ==
  [][(/\ PanelShown
      /\ isEditingCustomerComment /\ ~isEditingCustomerComment'
      /\ selectedLead' = selectedLead
      /\ calls = {} /\ calls' = {}
      /\ StoredOf(selectedLead[1]).customerComment # Undefined)
      => customerComment' = StoredOf(selectedLead[1]).customerComment]_vars

\* every lead of the list that holds a follow-up holds the followUpDate and
\* the followUpTime of its stored record
FollowUpsAsStored ==
  \A n \in DOMAIN leads :
    leads[n].followUpDate # Undefined =>
      /\ leads[n].followUpDate = StoredOf(leads[n]).followUpDate
      /\ leads[n].followUpTime = StoredOf(leads[n]).followUpTime

\* the stored record of the lead of the call c does not hold the follow-up
\* of c: the write of c has not happened
ScheduleNotWritten(c) ==
  \A k \in DOMAIN leadDocs :
    DocKey(k) = c.leadId =>
      leadDocs[k].followUpDate # toISOString(c.date, c.time)

\* a step leaves the list and the follow-up editor as they are
EditorKept ==
  /\ leads' = leads
  /\ followUpLeadId' = followUpLeadId
  /\ followUpDate' = followUpDate
  /\ followUpTime' = followUpTime

\* C26: the followUpDate and followUpTime a lead of the in-memory list holds
\* after a follow-up was scheduled are those of its stored record, so that a
\* re-read of the store does not change them; and the step on which the
\* write of a schedule fails (the call ends and the record does not hold its
\* follow-up) leaves the list unchanged and the editor as it is.
C26_FollowUpAsStored ==
  [][/\ FollowUpsAsStored'
     /\ \A c \in calls \ calls' : ScheduleNotWritten(c)' => EditorKept]_vars

\* no two records of `docs` share a natural key
NoSharedKey(docs) ==
  \A k1 \in DOMAIN docs : \A k2 \in DOMAIN docs :
    k1 # k2 => naturalKey(docs[k1]) # naturalKey(docs[k2])

\* C27: a completed sync run that no other run has overlapped (the store
\* holds the records the run read and the records it created, and no other)
\* and that read a store in which no two leads share a natural key leaves a
\* store in which no two leads share a natural key, whatever the feed lists.
C27_KeysStayUnique ==
  \A r \in Runs :
    (/\ run[r].pc = "done"
     /\ DOMAIN leadDocs = DOMAIN run[r].firestoreLeads \cup run[r].created
     /\ NoSharedKey(run[r].firestoreLeads))
    => NoSharedKey(leadDocs)

====
